---- MODULE Spec2Model ----
(***************************************************************************)
(* Retrieval core of the AI Knowledge Inbox (RAG/backend): the word-window *)
(* chunker, the in-memory vector store, the SQLite store it is rebuilt     *)
(* from, the query orchestration and the request handlers that drive them. *)
(*                                                                         *)
(* A text is modelled by its word sequence plus one bit telling whether    *)
(* its whitespace is already canonical (words separated by single spaces,  *)
(* nothing leading or trailing): str.split() forgets the whitespace and    *)
(* ' '.join() always produces canonical whitespace.  Words are numbers and *)
(* the words of every text of the model are consecutive numbers, so a text *)
(* is stored as its first word and its word count.                         *)
(***************************************************************************)
EXTENDS Integers, Sequences, FiniteSets, TLC

VARIABLES
    ck,           \* the chunker call in progress (chunker specification)
    embeddings,   \* VectorStore.embeddings
    chunks,       \* VectorStore.chunks
    items,        \* rows of table items
    chunkRows,    \* rows of table chunks, in ascending id order
    nextItemId,   \* AUTOINCREMENT counter of items
    nextChunkId,  \* AUTOINCREMENT counter of chunks
    tasks,        \* the frame of every coroutine / call
    current,      \* the task that holds the event loop thread, or NoTask
    before,       \* the index as the caller of a direct call saw it at the call
    restarts,     \* number of process restarts so far
    ingestFailed, \* an /api/ingest request failed (HTTP 500) since the process started
    backlog       \* number of requests that have arrived and wait for the event loop

vars == <<ck, embeddings, chunks, items, chunkRows, nextItemId, nextChunkId,
          tasks, current, before, restarts, ingestFailed, backlog>>

indexVars == <<embeddings, chunks>>
dbVars == <<items, chunkRows, nextItemId, nextChunkId>>

(***************************************************************************)
(* Bounds of the model                                                     *)
(***************************************************************************)
MaxWords == 5
MaxChunkSize == 3
MaxOverlap == 4
LoopCap == 9
MaxReq == 2
MaxItems == 2
MaxRestarts == 1
MaxIndex == 3
MaxRows == 2
MaxK == 3

(***************************************************************************)
(* Program constants                                                       *)
(***************************************************************************)
DefaultChunkSize == 500
DefaultOverlap == 50
MaxNoteChars == 50000
SnippetChars == 200
DefaultMaxResults == 5

Min(a, b) == IF a <= b THEN a ELSE b
Max(a, b) == IF a >= b THEN a ELSE b

(***************************************************************************)
(* Texts                                                                   *)
(***************************************************************************)
Text(ws, c) == [first |-> IF ws = <<>> THEN 0 ELSE ws[1], n |-> Len(ws), canon |-> c]

WordRun(lo, hi) == [i \in 1..(hi - lo + 1) |-> lo + i - 1]

\* text.split()
Split(text) == [i \in 1..text.n |-> text.first + i - 1]

\* ' '.join(words)
Join(ws) == Text(ws, TRUE)

\* words[start:end] with Python's slice rules (negative bounds count from the
\* end of the list, out-of-range bounds are clamped)
PySlice(ws, start, end) ==
    LET n == Len(ws)
        s == IF start < 0 THEN Max(n + start, 0) ELSE Min(start, n)
        e == IF end < 0 THEN Max(n + end, 0) ELSE Min(end, n)
    IN  IF s < e THEN SubSeq(ws, s + 1, e) ELSE <<>>

(***************************************************************************)
(* Chunker: ContentIngestion.chunk_text / RAGPipeline.chunk_text           *)
(***************************************************************************)
NextStartNoOverlap(end, overlap) == end

\* start = end - overlap
NextStart(end, overlap) == end - overlap

\* The state of one call right after `words = text.split()`, the early return
\* for short texts included.
ChunkEnter(text, chunk_size, overlap) ==
    LET ws == Split(text)
    IN  IF Len(ws) <= chunk_size
        THEN [text |-> text, chunk_size |-> chunk_size, overlap |-> overlap,
              words |-> ws, chunks |-> <<text>>, start |-> 0, pc |-> "done"]
        ELSE [text |-> text, chunk_size |-> chunk_size, overlap |-> overlap,
              words |-> ws, chunks |-> <<>>, start |-> 0, pc |-> "loop"]

\* One evaluation of `while start < len(words)` and, when it holds, one pass
\* through the loop body (the `if start >= len(words): break` included).
ChunkIterate(c) ==
    IF ~(c.start < Len(c.words))
    THEN [c EXCEPT !.pc = "done"]
    ELSE LET end == c.start + c.chunk_size
             chunk == Join(PySlice(c.words, c.start, end))
             start2 == NextStart(end, c.overlap)
         IN  [c EXCEPT !.chunks = Append(c.chunks, chunk),
                       !.start = start2,
                       !.pc = IF start2 >= Len(c.words) THEN "done" ELSE "loop"]

\* The whole call, for configurations on which the loop ends.
RECURSIVE ChunkRun(_)
ChunkRun(c) == IF c.pc = "done" THEN c.chunks ELSE ChunkRun(ChunkIterate(c))

chunk_text(text, chunk_size, overlap) == ChunkRun(ChunkEnter(text, chunk_size, overlap))

\* The calls the chunker specification starts from.
ChunkInputs ==
    { [text |-> Text(WordRun(1, n), c), chunk_size |-> cs, overlap |-> ov, pc |-> "call",
       words |-> <<>>, chunks |-> <<>>, start |-> 0] :
        n \in 0..MaxWords, c \in BOOLEAN, cs \in 1..MaxChunkSize, ov \in 0..MaxOverlap }
    \cup
    { [text |-> Text(WordRun(1, 1200), TRUE), chunk_size |-> DefaultChunkSize,
       overlap |-> DefaultOverlap, pc |-> "call",
       words |-> <<>>, chunks |-> <<>>, start |-> 0] }

NoCall == [text |-> Text(<<>>, TRUE), chunk_size |-> 1, overlap |-> 0, pc |-> "none",
           words |-> <<>>, chunks |-> <<>>, start |-> 0]

InitChunk ==
    /\ ck \in ChunkInputs
    /\ embeddings = <<>> /\ chunks = <<>>
    /\ items = {} /\ chunkRows = <<>> /\ nextItemId = 1 /\ nextChunkId = 1
    /\ tasks = <<>> /\ current = {} /\ restarts = 0 /\ ingestFailed = FALSE /\ backlog = 0
    /\ before = [embeddings |-> <<>>, chunks |-> <<>>]

ChunkEntry ==
    /\ ck.pc = "call"
    /\ ck' = ChunkEnter(ck.text, ck.chunk_size, ck.overlap)
    /\ UNCHANGED <<indexVars, dbVars, tasks, current, before, restarts, ingestFailed, backlog>>

ChunkLoop ==
    /\ ck.pc = "loop"
    /\ Len(ck.chunks) < LoopCap
    /\ ck' = ChunkIterate(ck)
    /\ UNCHANGED <<indexVars, dbVars, tasks, current, before, restarts, ingestFailed, backlog>>

NextChunk == ChunkEntry \/ ChunkLoop

SpecChunk == InitChunk /\ [][NextChunk]_vars

(***************************************************************************)
(* Embedding service and similarity                                        *)
(*                                                                         *)
(* The service is a fixed function from texts to vectors that may also     *)
(* fail on any call.  The model's vectors have integer norms, so that      *)
(* math.sqrt is exact on them; a score is the cosine scaled by 100, which  *)
(* is an integer for every pair of them.  Nothing binds the service to the *)
(* dimension the index is configured with: one of its vectors has one      *)
(* component more than the others.                                         *)
(***************************************************************************)
Vecs == << <<1, 0>>, <<0, 2>>, <<0, 0>>, <<3, 4, 0>>, <<4, 3>>, <<2, 0>> >>

\* self.dimension = config.EMBEDDING_DIMENSION: the length of the vectors of
\* the embedding model the index is configured for.
dimension == Len(Vecs[1])

\* response.data[0].embedding of client.embeddings.create(input=text, ...)
ServiceVector(text) == Vecs[((text.n + text.first) % Len(Vecs)) + 1]

\* VectorStore.generate_embedding: the vector, or the exception re-raised
generate_embedding(text) ==
    { [ok |-> TRUE, vec |-> ServiceVector(text)], [ok |-> FALSE, vec |-> <<>>] }

RECURSIVE SumTo(_, _)
SumTo(f, n) == IF n = 0 THEN 0 ELSE f[n] + SumTo(f, n - 1)

\* math.sqrt on a perfect square
Sqrt(n) == CHOOSE r \in 0..n : r * r <= n /\ n < (r + 1) * (r + 1)

\* VectorStore.cosine_similarity, times 100; zip() stops at the shorter vector
cosine_similarity(vec1, vec2) ==
    LET m == Min(Len(vec1), Len(vec2))
        dot_product == SumTo([i \in 1..m |-> vec1[i] * vec2[i]], m)
        norm1 == Sqrt(SumTo([i \in 1..Len(vec1) |-> vec1[i] * vec1[i]], Len(vec1)))
        norm2 == Sqrt(SumTo([i \in 1..Len(vec2) |-> vec2[i] * vec2[i]], Len(vec2)))
    IN  IF norm1 = 0 \/ norm2 = 0 THEN 0 ELSE (dot_product * 100) \div (norm1 * norm2)

\* Where list.sort(key=score, reverse=True) leaves an element among the ones
\* sorted before it: after every element whose score is not smaller (the sort
\* is stable, also with reverse=True).
SortPlaceTiesFirst(sorted, x) == Cardinality({ j \in 1..Len(sorted) : sorted[j][2] > x[2] })

SortPlace(sorted, x) == Cardinality({ j \in 1..Len(sorted) : sorted[j][2] >= x[2] })

RECURSIVE SortDesc(_, _)
SortDesc(s, n) ==
    IF n = 0 THEN <<>>
    ELSE LET sorted == SortDesc(s, n - 1)
             p == SortPlace(sorted, s[n])
         IN  SubSeq(sorted, 1, p) \o <<s[n]>> \o SubSeq(sorted, p + 1, Len(sorted))

ChunkRecord(text, chunk_metadata) == [text |-> text, metadata |-> chunk_metadata]

\* The body of VectorStore.search after the query is embedded: the (chunk,
\* score) pairs, or the IndexError of self.chunks[idx].
SearchScan(embs, cks, query_embedding, top_k) ==
    LET similarities == [idx \in 1..Len(embs) |->
                            <<idx, cosine_similarity(query_embedding, embs[idx])>>]
        top_results == PySlice(SortDesc(similarities, Len(similarities)), 0, top_k)
    IN  IF \E j \in 1..Len(top_results) : top_results[j][1] > Len(cks)
        THEN [ok |-> FALSE, results |-> <<>>]
        ELSE [ok |-> TRUE,
              results |-> [j \in 1..Len(top_results) |->
                              [chunk |-> cks[top_results[j][1]],
                               score |-> top_results[j][2]]]]

(***************************************************************************)
(* Relational store (database.py)                                          *)
(***************************************************************************)
\* get_connection never issues PRAGMA foreign_keys = ON, and SQLite enforces
\* foreign keys (ON DELETE CASCADE included) only on connections that do.
ForeignKeysEnforced == FALSE

ItemRow(id, content, source_type, url) ==
    [id |-> id, content |-> content, source_type |-> source_type, url |-> url]

ChunkRow(id, item_id, text, chunk_index) ==
    [id |-> id, item_id |-> item_id, chunk_text |-> text, chunk_index |-> chunk_index]

\* Database.get_item_by_id: <<row>>, or <<>> for None
get_item_by_id(rows, item_id) ==
    IF \E r \in rows : r.id = item_id
    THEN << CHOOSE r \in rows : r.id = item_id >>
    ELSE <<>>

\* Database.get_all_chunks: chunks JOIN items, ORDER BY c.id
get_all_chunks(rows, crows) ==
    SelectSeq(crows, LAMBDA c : \E r \in rows : r.id = c.item_id)

\* Database.delete_item: the tables after DELETE FROM items WHERE id = ?
ItemsAfterDelete(rows, item_id) == { r \in rows : r.id # item_id }

ChunkRowsAfterDelete(crows, item_id) ==
    IF ForeignKeysEnforced
    THEN SelectSeq(crows, LAMBDA c : c.item_id # item_id)
    ELSE crows

(***************************************************************************)
(* Frames: one per coroutine of the event loop (the startup hook and the   *)
(* request handlers) or per direct call on the components.  A frame holds  *)
(* the arguments, the locals and the position of the call, add_chunk and   *)
(* search being inlined in their callers (ret is where add_chunk returns). *)
(***************************************************************************)
TaskIds == 0..MaxReq
ReqTasks == 1..MaxReq
MainTasks == TaskIds \ ReqTasks

NoText == Text(<<>>, TRUE)
NoMeta == [chunk_id |-> 0, item_id |-> 0, chunk_index |-> 0]

FreeFrame ==
    [kind |-> "none", pc |-> "free", outcome |-> "none", cause |-> "none",
     content |-> NoText, source_type |-> "none", item_id |-> 0,
     question |-> NoText, top_k |-> 0,
     text |-> NoText, meta |-> NoMeta, embedding |-> <<>>, ret |-> "none",
     all_chunks |-> <<>>, chunk_list |-> <<>>, i |-> 0,
     results |-> <<>>, answer |-> "none", context |-> <<>>, sources |-> <<>>]

\* The call returns: its locals die, what it hands back stays in the frame.
Finish(f, outcome) ==
    [f EXCEPT !.pc = "done", !.outcome = outcome, !.embedding = <<>>, !.ret = "none",
              !.all_chunks = <<>>, !.chunk_list = <<>>, !.i = 0]

\* An exception leaves the call.  Every except block on the way logs and
\* re-raises (add_chunk, search, reload_from_database, query) or turns it into
\* an HTTP 500 (the routes); startup_event alone logs it and goes on.
StartupOutcomeUncaught == "error"

\* How startup_event ends when reload_from_database raises: its except block
\* logs "Failed to reload vector store" and startup goes on.
StartupOutcome == "reload_failed"

Raise(f) ==
    Finish([f EXCEPT !.results = <<>>, !.answer = "none", !.context = <<>>,
                     !.sources = <<>>],
           IF f.kind = "startup" THEN StartupOutcome ELSE "error")

\* `except Exception as e: logger.error(...); raise`: the exception that
\* leaves the call is the one that was caught, so it carries its cause.
FailedSwallowed(f, cause) == Finish(f, "ok")

Failed(f, cause) == Raise([f EXCEPT !.cause = cause])

\* The positions at which a coroutine gives the event loop thread back while
\* it is not finished.  startup_event and the route handlers are `async def`
\* bodies that await nothing but process_content, itself a coroutine without
\* an await: they run from their first to their last statement in one piece.
SuspendsInAdd(pc) == pc = "add_append_chunk"

SuspendsInReload(pc) == pc = "reload_loop"

Suspends(pc) == FALSE

Running(t) == current = {t}

\* One step of task t, which leaves it in frame f2.
Step(t, f2) ==
    /\ tasks' = [tasks EXCEPT ![t] = f2]
    /\ current' = IF Suspends(f2.pc) THEN {} ELSE {t}
    /\ ingestFailed' = (ingestFailed \/ (f2.kind = "ingest" /\ f2.pc = "done" /\ f2.outcome = "error"))

(***************************************************************************)
(* VectorStore.add_chunk                                                   *)
(***************************************************************************)
AddEmbed(t) ==
    /\ Running(t) /\ tasks[t].pc = "add_embed"
    /\ \E r \in generate_embedding(tasks[t].text) :
          Step(t, IF r.ok
                  THEN [tasks[t] EXCEPT !.embedding = r.vec, !.pc = "add_append_emb"]
                  ELSE Failed(tasks[t], "embedding"))
    /\ UNCHANGED <<ck, indexVars, dbVars, before, restarts, backlog>>

AddAppendEmbedding(t) ==
    /\ Running(t) /\ tasks[t].pc = "add_append_emb"
    /\ embeddings' = Append(embeddings, tasks[t].embedding)
    /\ Step(t, [tasks[t] EXCEPT !.pc = "add_append_chunk"])
    /\ UNCHANGED <<ck, chunks, dbVars, before, restarts, backlog>>

ChunksAfterAddNothing(cks, text, chunk_metadata) == cks

ChunksAfterAdd(cks, text, chunk_metadata) == Append(cks, ChunkRecord(text, chunk_metadata))

AddAppendChunk(t) ==
    /\ Running(t) /\ tasks[t].pc = "add_append_chunk"
    /\ chunks' = ChunksAfterAdd(chunks, tasks[t].text, tasks[t].meta)
    /\ Step(t, IF tasks[t].ret = "done"
               THEN Finish(tasks[t], "ok")
               ELSE [tasks[t] EXCEPT !.pc = tasks[t].ret, !.embedding = <<>>])
    /\ UNCHANGED <<ck, embeddings, dbVars, before, restarts, backlog>>

(***************************************************************************)
(* VectorStore.clear and VectorStore.reload_from_database                  *)
(***************************************************************************)
clearEmbeddingsOnly(embs, cks) == [embeddings |-> <<>>, chunks |-> cks]

clear(embs, cks) == [embeddings |-> <<>>, chunks |-> <<>>]

ReloadGet(t) ==
    /\ Running(t) /\ tasks[t].pc = "reload_get"
    /\ LET all_chunks == get_all_chunks(items, chunkRows)
       IN  Step(t, IF all_chunks = <<>>
                   THEN Finish(tasks[t], "ok")
                   ELSE [tasks[t] EXCEPT !.all_chunks = all_chunks, !.pc = "reload_clear"])
    /\ UNCHANGED <<ck, indexVars, dbVars, before, restarts, backlog>>

ReloadClear(t) ==
    /\ Running(t) /\ tasks[t].pc = "reload_clear"
    /\ embeddings' = clear(embeddings, chunks).embeddings
    /\ chunks' = clear(embeddings, chunks).chunks
    /\ Step(t, [tasks[t] EXCEPT !.i = 1, !.pc = "reload_loop"])
    /\ UNCHANGED <<ck, dbVars, before, restarts, backlog>>

ReloadLoop(t) ==
    /\ Running(t) /\ tasks[t].pc = "reload_loop"
    /\ LET f == tasks[t]
       IN  Step(t, IF f.i > Len(f.all_chunks)
                   THEN Finish(f, "ok")
                   ELSE [f EXCEPT !.text = f.all_chunks[f.i].chunk_text,
                                  !.meta = [chunk_id |-> f.all_chunks[f.i].id,
                                            item_id |-> f.all_chunks[f.i].item_id,
                                            chunk_index |-> f.all_chunks[f.i].chunk_index],
                                  !.i = f.i + 1,
                                  !.ret = "reload_loop",
                                  !.pc = "add_embed"])
    /\ UNCHANGED <<ck, indexVars, dbVars, before, restarts, backlog>>

(***************************************************************************)
(* VectorStore.search and RAGPipeline.query                                *)
(***************************************************************************)
NoInfoAnswer == "I don't have any relevant information to answer this question."

\* len(text), a model word being one character wide
CharLen(text) ==
    IF text.n = 0 THEN (IF text.canon THEN 0 ELSE 1)
    ELSE 2 * text.n - (IF text.canon THEN 1 ELSE 0)

\* chunk_data['text'][:200] + "..." if len(chunk_data['text']) > 200 else chunk_data['text']
Snippet(text) ==
    IF CharLen(text) > SnippetChars
    THEN [head |-> Text(SubSeq(Split(text), 1, SnippetChars \div 2), FALSE), ellipsis |-> TRUE]
    ELSE [head |-> text, ellipsis |-> FALSE]

ContextOfDeduplicated(context_chunks) ==
    LET first == SelectSeq([j \in 1..Len(context_chunks) |-> j],
                           LAMBDA j : \A h \in 1..(j - 1) :
                               context_chunks[h].chunk.metadata.item_id
                                  # context_chunks[j].chunk.metadata.item_id)
    IN  [a \in 1..Len(first) |->
            [score |-> context_chunks[first[a]].score,
             text |-> context_chunks[first[a]].chunk.text]]

\* context_parts of generate_answer: one "[Relevance: score] text" per chunk
ContextOf(context_chunks) ==
    [j \in 1..Len(context_chunks) |->
        [score |-> context_chunks[j].score, text |-> context_chunks[j].chunk.text]]

AlreadySeenNever(item_id, seen_items) == FALSE

\* if item_id in seen_items: continue
AlreadySeen(item_id, seen_items) == item_id \in seen_items

SourcesAfterMissingStop(rest) == <<>>

\* `if item:` is false for an item the store does not hold: nothing is
\* appended for this result and the loop goes on with the rest.
SourcesAfterMissing(rest) == rest

\* The loop of query over search_results that prepares the source snippets.
RECURSIVE SourcesFrom(_, _, _, _)
SourcesFrom(search_results, j, seen_items, rows) ==
    IF j > Len(search_results) THEN <<>>
    ELSE LET chunk_data == search_results[j].chunk
             item_id == chunk_data.metadata.item_id
             item == get_item_by_id(rows, item_id)
         IN  IF AlreadySeen(item_id, seen_items)
             THEN SourcesFrom(search_results, j + 1, seen_items, rows)
             ELSE LET rest == SourcesFrom(search_results, j + 1,
                                          seen_items \cup {item_id}, rows)
                  IN  IF item # <<>>
                      THEN << [item_id |-> item_id,
                               content |-> Snippet(chunk_data.text),
                               source_type |-> item[1].source_type,
                               url |-> item[1].url,
                               relevance_score |-> search_results[j].score] >> \o rest
                      ELSE SourcesAfterMissing(rest)

\* Where the inlined search returns to: the caller of a direct search, or
\* query, which answers at once when nothing was found.
AfterSearch(f, results) ==
    IF f.kind = "search"
    THEN Finish([f EXCEPT !.results = results], "ok")
    ELSE IF results = <<>>
         THEN Finish([f EXCEPT !.results = <<>>, !.answer = NoInfoAnswer, !.sources = <<>>],
                     "ok")
         ELSE [f EXCEPT !.results = results, !.embedding = <<>>, !.pc = "query_generate"]

IndexEmptyNever(embs) == FALSE

\* if not self.embeddings: return []
IndexEmpty(embs) == embs = <<>>

SearchCheck(t) ==
    /\ Running(t) /\ tasks[t].pc = "search_check"
    /\ Step(t, IF IndexEmpty(embeddings)
               THEN AfterSearch(tasks[t], <<>>)
               ELSE [tasks[t] EXCEPT !.pc = "search_embed"])
    /\ UNCHANGED <<ck, indexVars, dbVars, before, restarts, backlog>>

SearchEmbed(t) ==
    /\ Running(t) /\ tasks[t].pc = "search_embed"
    /\ \E r \in generate_embedding(tasks[t].question) :
          Step(t, IF r.ok
                  THEN [tasks[t] EXCEPT !.embedding = r.vec, !.pc = "search_scan"]
                  ELSE Failed(tasks[t], "embedding"))
    /\ UNCHANGED <<ck, indexVars, dbVars, before, restarts, backlog>>

SearchRank(t) ==
    /\ Running(t) /\ tasks[t].pc = "search_scan"
    /\ LET r == SearchScan(embeddings, chunks, tasks[t].embedding, tasks[t].top_k)
       IN  Step(t, IF r.ok THEN AfterSearch(tasks[t], r.results)
                           ELSE Failed(tasks[t], "index"))
    /\ UNCHANGED <<ck, indexVars, dbVars, before, restarts, backlog>>

\* generate_answer(question, search_results): the completion call may fail
QueryGenerate(t) ==
    /\ Running(t) /\ tasks[t].pc = "query_generate"
    /\ \E ok \in BOOLEAN :
          Step(t, IF ok
                  THEN [tasks[t] EXCEPT !.context = ContextOf(tasks[t].results),
                                        !.answer = "generated",
                                        !.pc = "query_sources"]
                  ELSE Failed(tasks[t], "completion"))
    /\ UNCHANGED <<ck, indexVars, dbVars, before, restarts, backlog>>

\* The sources loop; a db.get_item_by_id that raises ends the query.
QuerySources(t) ==
    /\ Running(t) /\ tasks[t].pc = "query_sources"
    /\ \E ok \in BOOLEAN :
          Step(t, IF ok
                  THEN Finish([tasks[t] EXCEPT
                                  !.sources = SourcesFrom(tasks[t].results, 1, {}, items)],
                              "ok")
                  ELSE Failed(tasks[t], "store"))
    /\ UNCHANGED <<ck, indexVars, dbVars, before, restarts, backlog>>

(***************************************************************************)
(* process_content (route /api/ingest) and route DELETE /api/items/{id}    *)
(***************************************************************************)
\* ContentIngestion.validate_note
validate_note(content) == content.n # 0 /\ CharLen(content) <= MaxNoteChars

\* ContentIngestion.extract_url_content: (success, content); the page text is
\* rebuilt with ' '.join, and a page without text is a failure
UrlPage(url) == Join(<<6>>)

extract_url_content(url) ==
    { [ok |-> TRUE, content |-> UrlPage(url)], [ok |-> FALSE, content |-> NoText] }

IngestBegin(t) ==
    /\ Running(t) /\ tasks[t].pc = "ingest_begin"
    /\ LET f == tasks[t]
       IN  \E page \in (IF f.source_type = "url"
                        THEN extract_url_content(f.content)
                        ELSE { [ok |-> validate_note(f.content), content |-> f.content] }) :
              IF ~page.ok
              THEN /\ Step(t, Failed(f, "validation"))
                   /\ UNCHANGED dbVars
              ELSE /\ items' = items \cup
                                 { ItemRow(nextItemId, page.content, f.source_type,
                                           IF f.source_type = "url" THEN <<f.content>> ELSE <<>>) }
                   /\ nextItemId' = nextItemId + 1
                   /\ UNCHANGED <<chunkRows, nextChunkId>>
                   /\ Step(t, [f EXCEPT !.item_id = nextItemId,
                                        !.chunk_list = chunk_text(page.content, DefaultChunkSize,
                                                                  DefaultOverlap),
                                        !.i = 1,
                                        !.pc = "ingest_loop"])
    /\ UNCHANGED <<ck, indexVars, before, restarts, backlog>>

IngestLoop(t) ==
    /\ Running(t) /\ tasks[t].pc = "ingest_loop"
    /\ LET f == tasks[t]
       IN  IF f.i > Len(f.chunk_list)
           THEN /\ Step(t, Finish(f, "ok"))
                /\ UNCHANGED dbVars
           ELSE /\ chunkRows' = Append(chunkRows,
                                       ChunkRow(nextChunkId, f.item_id, f.chunk_list[f.i], f.i - 1))
                /\ nextChunkId' = nextChunkId + 1
                /\ UNCHANGED <<items, nextItemId>>
                /\ Step(t, [f EXCEPT !.text = f.chunk_list[f.i],
                                     !.meta = [chunk_id |-> nextChunkId,
                                               item_id |-> f.item_id,
                                               chunk_index |-> f.i - 1],
                                     !.i = f.i + 1,
                                     !.ret = "ingest_loop",
                                     !.pc = "add_embed"])
    /\ UNCHANGED <<ck, indexVars, before, restarts, backlog>>

DeleteItem(t) ==
    /\ Running(t) /\ tasks[t].pc = "delete_begin"
    /\ LET f == tasks[t]
       IN  IF get_item_by_id(items, f.item_id) = <<>>
           THEN /\ Step(t, Finish(f, "not_found"))
                /\ UNCHANGED dbVars
           ELSE /\ items' = ItemsAfterDelete(items, f.item_id)
                /\ chunkRows' = ChunkRowsAfterDelete(chunkRows, f.item_id)
                /\ UNCHANGED <<nextItemId, nextChunkId>>
                /\ Step(t, Finish(f, "ok"))
    /\ UNCHANGED <<ck, indexVars, before, restarts, backlog>>

(***************************************************************************)
(* Inputs                                                                  *)
(***************************************************************************)
Questions == { Join(<<5>>), Join(<<3>>) }
RouteQuestions == { Join(<<5>>) }

\* (chunk_text, chunk_metadata) arguments of the direct add_chunk calls
AddInputs ==
    { [text |-> Join(<<4>>), meta |-> [chunk_id |-> 1, item_id |-> 1, chunk_index |-> 0]],
      [text |-> Join(<<2>>), meta |-> [chunk_id |-> 2, item_id |-> 2, chunk_index |-> 0]] }

\* chunk_text of the rows the direct insert_chunk calls add for an item
RowText(item_id) == Join(<<4 + item_id>>)

NoteShort == Text(<<1, 2>>, FALSE)
NoteLong == Text(WordRun(1, DefaultChunkSize + 1), TRUE)
Url1 == Join(<<900>>)

IngestRequests ==
    { [content |-> NoteLong, source_type |-> "note"],
      [content |-> Url1, source_type |-> "url"] }

(***************************************************************************)
(* Direct calls on the components, one at a time, in any order             *)
(***************************************************************************)
Idle(t) == current = {} /\ tasks[t].pc = "free"

NoIndex == [embeddings |-> <<>>, chunks |-> <<>>]

\* The call is over: the caller has what it handed back (a route sends the
\* response) and the frame is gone.  The frame of startup_event is kept, as
\* the record of how the startup of this run went.
Return(t) ==
    /\ Running(t) /\ tasks[t].pc = "done"
    /\ tasks' = [tasks EXCEPT ![t] = IF tasks[t].kind = "startup" THEN tasks[t] ELSE FreeFrame]
    /\ current' = {}
    /\ before' = NoIndex
    /\ UNCHANGED <<ck, indexVars, dbVars, restarts, ingestFailed, backlog>>

Call(t, f) ==
    /\ tasks' = [tasks EXCEPT ![t] = f]
    /\ current' = {t}
    /\ before' = [embeddings |-> embeddings, chunks |-> chunks]
    /\ UNCHANGED ingestFailed

CallAdd(t) ==
    /\ Idle(t)
    /\ Len(chunks) < MaxIndex
    /\ \E a \in AddInputs :
          Call(t, [FreeFrame EXCEPT !.kind = "add", !.text = a.text, !.meta = a.meta,
                                    !.ret = "done", !.pc = "add_embed"])
    /\ UNCHANGED <<ck, indexVars, dbVars, restarts, backlog>>

CallClear(t) ==
    /\ Idle(t)
    /\ embeddings' = clear(embeddings, chunks).embeddings
    /\ chunks' = clear(embeddings, chunks).chunks
    /\ Call(t, Finish([FreeFrame EXCEPT !.kind = "clear"], "ok"))
    /\ UNCHANGED <<ck, dbVars, restarts, backlog>>

CallReload(t) ==
    /\ Idle(t)
    /\ Call(t, [FreeFrame EXCEPT !.kind = "reload", !.pc = "reload_get"])
    /\ UNCHANGED <<ck, indexVars, dbVars, restarts, backlog>>

CallSearch(t) ==
    /\ Idle(t)
    /\ \E q \in Questions, k \in 0..MaxK :
          Call(t, [FreeFrame EXCEPT !.kind = "search", !.question = q, !.top_k = k,
                                    !.pc = "search_check"])
    /\ UNCHANGED <<ck, indexVars, dbVars, restarts, backlog>>

CallQuery(t) ==
    /\ Idle(t)
    /\ \E q \in Questions, k \in {1, DefaultMaxResults} :
          Call(t, [FreeFrame EXCEPT !.kind = "query", !.question = q, !.top_k = k,
                                    !.pc = "search_check"])
    /\ UNCHANGED <<ck, indexVars, dbVars, restarts, backlog>>

\* Database.insert_item
DbInsertItem ==
    /\ \A t \in TaskIds : tasks[t].pc = "free"
    /\ nextItemId <= MaxItems
    /\ items' = items \cup { ItemRow(nextItemId, NoteShort, "note", <<>>) }
    /\ nextItemId' = nextItemId + 1
    /\ UNCHANGED <<ck, indexVars, chunkRows, nextChunkId, tasks, current, before, restarts, ingestFailed, backlog>>

\* Database.insert_chunk, for the item inserted last (as its callers use it)
DbInsertChunk ==
    /\ \A t \in TaskIds : tasks[t].pc = "free"
    /\ Len(chunkRows) < MaxRows
    /\ \E item_id \in {nextItemId - 1} :
          /\ get_item_by_id(items, item_id) # <<>>
          /\ chunkRows' = Append(chunkRows,
                 ChunkRow(nextChunkId, item_id, RowText(item_id),
                          Len(SelectSeq(chunkRows, LAMBDA c : c.item_id = item_id))))
    /\ nextChunkId' = nextChunkId + 1
    /\ UNCHANGED <<ck, indexVars, items, nextItemId, tasks, current, before, restarts, ingestFailed, backlog>>

\* Database.delete_item
DbDeleteItem ==
    /\ \A t \in TaskIds : tasks[t].pc = "free"
    /\ \E item_id \in 1..MaxItems :
          /\ get_item_by_id(items, item_id) # <<>>
          /\ items' = ItemsAfterDelete(items, item_id)
          /\ chunkRows' = ChunkRowsAfterDelete(chunkRows, item_id)
    /\ UNCHANGED <<ck, indexVars, nextItemId, nextChunkId, tasks, current, before, restarts, ingestFailed, backlog>>

InitCore ==
    /\ ck = NoCall
    /\ embeddings = <<>> /\ chunks = <<>>
    /\ items = {} /\ chunkRows = <<>> /\ nextItemId = 1 /\ nextChunkId = 1
    /\ tasks = [t \in TaskIds |-> FreeFrame]
    /\ current = {}
    /\ before = NoIndex
    /\ restarts = 0
    /\ ingestFailed = FALSE /\ backlog = 0

NextCore ==
    \/ \E t \in MainTasks :
          \/ CallAdd(t) \/ CallClear(t) \/ CallReload(t) \/ CallSearch(t) \/ CallQuery(t)
          \/ AddEmbed(t) \/ AddAppendEmbedding(t) \/ AddAppendChunk(t)
          \/ ReloadGet(t) \/ ReloadClear(t) \/ ReloadLoop(t)
          \/ SearchCheck(t) \/ SearchEmbed(t) \/ SearchRank(t)
          \/ QueryGenerate(t) \/ QuerySources(t)
          \/ Return(t)
    \/ DbInsertItem \/ DbInsertChunk \/ DbDeleteItem

SpecCore == InitCore /\ [][NextCore]_vars

(***************************************************************************)
(* The application: uvicorn runs startup_event, then serves the requests   *)
(* that arrive, every handler a coroutine of the one event loop.  Each     *)
(* request slot serves one request per run of the process.                 *)
(***************************************************************************)
StartupFrame == [FreeFrame EXCEPT !.kind = "startup", !.pc = "reload_get"]

\* max_results = request.max_results or 5  (0 stands for an absent max_results)
TopK(max_results) == IF max_results = 0 THEN DefaultMaxResults ELSE max_results

Requests ==
    { [FreeFrame EXCEPT !.kind = "ingest", !.content = r.content,
                        !.source_type = r.source_type, !.pc = "ingest_begin"] :
        r \in IngestRequests }
    \cup
    { [FreeFrame EXCEPT !.kind = "delete", !.item_id = id, !.pc = "delete_begin"] :
        id \in 1..MaxItems }
    \cup
    { [FreeFrame EXCEPT !.kind = "query", !.question = q, !.top_k = TopK(m),
                        !.pc = "search_check"] :
        q \in RouteQuestions, m \in {0, 1} }

Init ==
    /\ ck = NoCall
    /\ embeddings = <<>> /\ chunks = <<>>
    /\ items = {} /\ chunkRows = <<>> /\ nextItemId = 1 /\ nextChunkId = 1
    /\ tasks = [t \in TaskIds |-> IF t \in MainTasks THEN StartupFrame ELSE FreeFrame]
    /\ current = MainTasks
    /\ before = NoIndex
    /\ restarts = 0
    /\ ingestFailed = FALSE /\ backlog = 0

\* A request arrives on a connection: it waits for the event loop.
Arrive ==
    /\ backlog < MaxReq
    /\ backlog' = backlog + 1
    /\ UNCHANGED <<ck, indexVars, dbVars, tasks, current, before, restarts, ingestFailed>>

\* The event loop, its thread free, runs a coroutine that can go on: it reads
\* a waiting request and enters the route's handler, or resumes a suspended
\* coroutine.
Dispatch(t) ==
    /\ current = {}
    /\ tasks[t].pc # "done"
    /\ IF tasks[t].pc = "free"
       THEN /\ \A m \in MainTasks : tasks[m].outcome # "error"
            /\ backlog > 0
            /\ \A u \in ReqTasks : u < t => tasks[u].pc # "free"
            /\ backlog' = backlog - 1
            /\ \E f \in Requests :
                  /\ f.kind = "ingest" => nextItemId <= MaxItems
                  /\ tasks' = [tasks EXCEPT ![t] = f]
       ELSE UNCHANGED <<tasks, backlog>>
    /\ current' = {t}
    /\ UNCHANGED <<ck, indexVars, dbVars, before, restarts, ingestFailed>>

\* The process is stopped between requests and started again: the vector
\* store is a new, empty object, the database file is the same.
Restart ==
    /\ current = {}
    /\ restarts < MaxRestarts
    /\ restarts' = restarts + 1
    /\ embeddings' = <<>> /\ chunks' = <<>>
    /\ tasks' = [t \in TaskIds |-> IF t \in MainTasks THEN StartupFrame ELSE FreeFrame]
    /\ current' = MainTasks
    /\ ingestFailed' = FALSE
    /\ backlog' = 0
    /\ UNCHANGED <<ck, dbVars, before>>

Next ==
    \/ Arrive
    \/ \E t \in TaskIds :
          \/ Dispatch(t)
          \/ AddEmbed(t) \/ AddAppendEmbedding(t) \/ AddAppendChunk(t)
          \/ ReloadGet(t) \/ ReloadClear(t) \/ ReloadLoop(t)
          \/ SearchCheck(t) \/ SearchEmbed(t) \/ SearchRank(t)
          \/ QueryGenerate(t) \/ QuerySources(t)
          \/ IngestBegin(t) \/ IngestLoop(t) \/ DeleteItem(t)
          \/ Return(t)
    \/ Restart

Spec == Init /\ [][Next]_vars

(***************************************************************************)
(* Properties                                                              *)
(***************************************************************************)
\* Position i of both sequences refers to the same chunk: embeddings[i] is
\* the embedding of the text of chunks[i].
Aligned ==
    /\ Len(embeddings) = Len(chunks)
    /\ \A i \in 1..Len(chunks) : embeddings[i] = ServiceVector(chunks[i].text)

\* The chunks the index holds and the chunks the store returns, as sets.
IndexChunks ==
    { [id |-> chunks[i].metadata.chunk_id, item_id |-> chunks[i].metadata.item_id,
       chunk_index |-> chunks[i].metadata.chunk_index, text |-> chunks[i].text] :
        i \in 1..Len(chunks) }

StoreChunks ==
    LET all_chunks == get_all_chunks(items, chunkRows)
    IN  { [id |-> all_chunks[i].id, item_id |-> all_chunks[i].item_id,
           chunk_index |-> all_chunks[i].chunk_index, text |-> all_chunks[i].chunk_text] :
            i \in 1..Len(all_chunks) }

\* C1: in every state between the operations add, clear and rebuild (that is,
\* whenever no add stands between its two appends) the embeddings and the
\* chunk records have the same length and position i of both refers to the
\* same chunk.
C1_SequencesAligned ==
    (\A t \in TaskIds : tasks[t].pc # "add_append_chunk") => Aligned

\* A rebuild failed partway and left a partially repopulated index.
C1_Witness ==
    \E t \in TaskIds :
        /\ tasks[t].kind = "reload" /\ tasks[t].pc = "done" /\ tasks[t].outcome = "error"
        /\ Len(chunks) >= 1

\* C2: after a rebuild that completes without error the set of chunks in the
\* index is exactly the set of chunks in the store.
C2_RebuildMatchesStore ==
    \A t \in TaskIds :
        (tasks[t].kind = "reload" /\ tasks[t].pc = "done" /\ tasks[t].outcome = "ok")
            => IndexChunks = StoreChunks

\* C3: once the startup rebuild has completed, and as long as every ingest of
\* this run succeeded, between requests the index holds exactly one record for
\* each chunk of the store and no record for any other chunk.
C3_OneRecordPerStoreChunk ==
    ( /\ \E t \in MainTasks : tasks[t].kind = "startup" /\ tasks[t].pc = "done"
                                /\ tasks[t].outcome = "ok"
      /\ current = {}
      /\ ~ingestFailed )
    => /\ IndexChunks = StoreChunks
       /\ \A c \in StoreChunks :
             Cardinality({ i \in 1..Len(chunks) : chunks[i].metadata.chunk_id = c.id }) = 1

\* C4: an add whose embedding fails raises and leaves both sequences as they
\* were at the call; an add that succeeds appends exactly one embedding and one
\* chunk record {text, metadata} at the end.
C4_AddAllOrNothing ==
    \A t \in TaskIds :
        (tasks[t].kind = "add" /\ tasks[t].pc = "done")
        => \/ /\ tasks[t].outcome = "error"
              /\ embeddings = before.embeddings
              /\ chunks = before.chunks
           \/ /\ tasks[t].outcome = "ok"
              /\ embeddings = Append(before.embeddings, ServiceVector(tasks[t].text))
              /\ chunks = Append(before.chunks,
                                 [text |-> tasks[t].text, metadata |-> tasks[t].meta])

\* An add failed on an index that already held a chunk.
C4_Witness ==
    \E t \in TaskIds :
        /\ tasks[t].kind = "add" /\ tasks[t].pc = "done" /\ tasks[t].outcome = "error"
        /\ Len(before.chunks) >= 1

\* The score of entry i for question q, and the order of the ranking: higher
\* scores first, equal scores in insertion order.
ScoreOf(q, i) == cosine_similarity(ServiceVector(q), embeddings[i])

RankedBefore(q, h, i) ==
    \/ ScoreOf(q, h) > ScoreOf(q, i)
    \/ ScoreOf(q, h) = ScoreOf(q, i) /\ h < i

RankOf(q, i) == 1 + Cardinality({ h \in 1..Len(embeddings) : RankedBefore(q, h, i) })

\* C5: on a non-empty index of n entries search(query, k) returns the first
\* min(k, n) entries of the ranking by non-increasing score, equal scores in
\* insertion order (nothing for k = 0, everything for k > n).
C5_SearchTopK ==
    \A t \in TaskIds :
        (tasks[t].kind = "search" /\ tasks[t].pc = "done" /\ tasks[t].outcome = "ok"
         /\ embeddings # <<>>)
        => /\ Len(tasks[t].results) = Min(tasks[t].top_k, Len(embeddings))
           /\ \A j \in 1..Len(tasks[t].results) :
                 \E i \in 1..Len(embeddings) :
                    /\ RankOf(tasks[t].question, i) = j
                    /\ tasks[t].results[j] =
                          [chunk |-> chunks[i], score |-> ScoreOf(tasks[t].question, i)]

\* A search cut a ranking in which two different chunks have the same score.
C5_Witness ==
    \E t \in TaskIds :
        /\ tasks[t].kind = "search" /\ tasks[t].pc = "done" /\ tasks[t].outcome = "ok"
        /\ tasks[t].top_k < Len(embeddings)
        /\ Len(tasks[t].results) >= 2
        /\ tasks[t].results[1].score = tasks[t].results[2].score
        /\ tasks[t].results[1].chunk # tasks[t].results[2].chunk

\* C6: the evidence of a query holds no two entries of the same item, the
\* entry of an item is the item's highest-ranked search hit, and the entries
\* are in non-increasing score order.
C6_EvidenceDeduplicated ==
    \A t \in TaskIds :
        (tasks[t].kind = "query" /\ tasks[t].pc = "done" /\ tasks[t].outcome = "ok")
        => LET src == tasks[t].sources
               res == tasks[t].results
           IN  /\ \A a, b \in 1..Len(src) :
                     a < b => /\ src[a].item_id # src[b].item_id
                              /\ src[a].relevance_score >= src[b].relevance_score
               /\ \A a \in 1..Len(src) :
                     \E j \in 1..Len(res) :
                        /\ res[j].chunk.metadata.item_id = src[a].item_id
                        /\ \A h \in 1..(j - 1) :
                              res[h].chunk.metadata.item_id # src[a].item_id
                        /\ src[a].relevance_score = res[j].score
                        /\ src[a].content = Snippet(res[j].chunk.text)

\* A query whose two best hits belong to one item and that cites two items.
C6_Witness ==
    \E t \in TaskIds :
        /\ tasks[t].kind = "query" /\ tasks[t].pc = "done" /\ tasks[t].outcome = "ok"
        /\ Len(tasks[t].results) >= 3
        /\ tasks[t].results[1].chunk.metadata.item_id
              = tasks[t].results[2].chunk.metadata.item_id
        /\ Len(tasks[t].sources) = 2

\* C7: whenever the two sequences are out of step, the add that stands between
\* its two appends holds the event loop thread, so that no other add and no
\* search runs before its second append.
C7_AppendsAtomic ==
    ~Aligned => \E t \in TaskIds : current = {t} /\ tasks[t].pc = "add_append_chunk"

\* An ingest stands between its two appends while another request waits.
C7_Witness ==
    \E t \in ReqTasks :
        /\ tasks[t].kind = "ingest" /\ tasks[t].pc = "add_append_chunk"
        /\ Len(embeddings) = Len(chunks) + 1
        /\ Len(chunks) >= 1
        /\ backlog > 0

\* C8: for the whole duration of the startup rebuild the rebuild holds the
\* event loop thread and no request handler has been entered.
C8_RebuildExclusive ==
    \A t \in TaskIds :
        (tasks[t].kind = "startup" /\ tasks[t].pc # "done")
        => /\ current = {t}
           /\ \A u \in ReqTasks : tasks[u].pc = "free"

\* The rebuild has re-added some but not all chunks while a request waits.
C8_Witness ==
    \E t \in TaskIds :
        /\ tasks[t].kind = "startup" /\ tasks[t].pc = "reload_loop"
        /\ Len(chunks) >= 1 /\ Len(chunks) < Len(tasks[t].all_chunks)
        /\ backlog > 0

\* C9: every iteration of the chunker's loop advances the window start by at
\* least 1 (for every chunk_size >= 1 and overlap >= 0).
C9_StartAdvances ==
    [][(ck.pc = "loop" /\ ck.start < Len(ck.words) /\ ck' # ck)
          => ck'.start >= ck.start + 1]_vars

\* C10: with 0 <= overlap < chunk_size the chunker returns the whole text as
\* one chunk when it has at most chunk_size words, and otherwise, for each
\* i >= 0 with i * (chunk_size - overlap) < n, the words at positions
\* [i * (chunk_size - overlap), min(i * (chunk_size - overlap) + chunk_size, n)).
C10_ChunksAreWindows ==
    (ck.pc = "done" /\ ck.overlap < ck.chunk_size)
    => LET n == ck.text.n
           step == ck.chunk_size - ck.overlap
           m == (n + step - 1) \div step
       IN  IF n <= ck.chunk_size
           THEN ck.chunks = <<ck.text>>
           ELSE /\ Len(ck.chunks) = m
                /\ \A i \in 0..(m - 1) :
                      ck.chunks[i + 1] =
                         Join(SubSeq(Split(ck.text), i * step + 1,
                                     Min(i * step + ck.chunk_size, n)))

\* The 1200-word text under the default configuration: three chunks, whose
\* windows start at words 0, 450 and 900.
C10_Witness ==
    /\ ck.pc = "done" /\ ck.text.n = 1200
    /\ ck.chunk_size = DefaultChunkSize /\ ck.overlap = DefaultOverlap
    /\ Len(ck.chunks) = 3
    /\ ck.chunks[1].first = ck.text.first
    /\ ck.chunks[2].first = ck.text.first + 450
    /\ ck.chunks[3].first = ck.text.first + 900

\* C11: every embedding held by the index has the configured dimension,
\* whatever the lengths of the vectors the embedding service returns.
C11_DimensionKept ==
    \A i \in 1..Len(embeddings) : Len(embeddings[i]) = dimension

\* C12: a delete of an existing item removes the item and every chunk row
\* owned by it from the store, and leaves the chunk rows of other items as
\* they were.
C12_DeleteCascades ==
    [][\A item_id \in 1..MaxItems :
          (get_item_by_id(items, item_id) # <<>> /\ get_item_by_id(items', item_id) = <<>>)
          => chunkRows' = SelectSeq(chunkRows, LAMBDA c : c.item_id # item_id)]_vars

KeptHits(res) ==
    SelectSeq([j \in 1..Len(res) |-> j],
              LAMBDA j : /\ \A h \in 1..(j - 1) :
                              res[h].chunk.metadata.item_id # res[j].chunk.metadata.item_id
                         /\ \E r \in items : r.id = res[j].chunk.metadata.item_id)

\* C14: a query that finds hits returns without raising one evidence entry
\* for every first hit of an item the store holds, in the order of the search
\* results, and none for an item the store does not hold.
C14_MissingItemsDropped ==
    \A t \in TaskIds :
        (tasks[t].kind = "query" /\ tasks[t].pc = "done" /\ tasks[t].outcome = "ok")
        => LET src == tasks[t].sources
               res == tasks[t].results
               kept == KeptHits(res)
           IN  /\ Len(src) = Len(kept)
               /\ \A a \in 1..Len(src) :
                     /\ src[a].item_id = res[kept[a]].chunk.metadata.item_id
                     /\ src[a].relevance_score = res[kept[a]].score

\* The best hit belongs to an item the store no longer holds, and a hit
\* ranked after it is returned.
C14_Witness ==
    \E t \in TaskIds :
        /\ tasks[t].kind = "query" /\ tasks[t].pc = "done" /\ tasks[t].outcome = "ok"
        /\ Len(tasks[t].results) >= 2
        /\ \A r \in items : r.id # tasks[t].results[1].chunk.metadata.item_id
        /\ Len(tasks[t].sources) >= 1

\* C15: on an index without entries a search returns the empty result at
\* once, and a query the fixed answer with no evidence, from the emptiness
\* check itself: the step that embeds the question and the step that calls
\* the completion service are never entered, so neither service can make the
\* call fail.
C15_EmptyIndexNoCalls ==
    [][\A t \in TaskIds :
          (tasks[t].pc = "search_check" /\ embeddings = <<>> /\ tasks'[t] # tasks[t])
          => /\ tasks'[t].pc = "done" /\ tasks'[t].outcome = "ok"
             /\ tasks'[t].results = <<>>
             /\ tasks[t].kind = "query" =>
                    (tasks'[t].answer = NoInfoAnswer /\ tasks'[t].sources = <<>>)]_vars

\* A query on an empty index has returned the fixed answer.
C15_Witness ==
    \E t \in TaskIds :
        /\ tasks[t].kind = "query" /\ tasks[t].pc = "done" /\ tasks[t].outcome = "ok"
        /\ tasks[t].answer = NoInfoAnswer /\ tasks[t].sources = <<>>
        /\ embeddings = <<>>

\* The chunk record add_chunk builds for a row of get_all_chunks.
RecordOfRow(row) ==
    [text |-> row.chunk_text,
     metadata |-> [chunk_id |-> row.id, item_id |-> row.item_id,
                   chunk_index |-> row.chunk_index]]

\* C16: a startup rebuild that fails on the embedding of some chunk ends
\* startup_event without an exception and with the failure on record; at the
\* failure the index holds exactly the chunks re-added before it (possibly
\* none); and every query served after it returns hits of that index or fails
\* on a service call of its own, never on the state of the index.
C16_DegradedStart ==
    /\ [](\A m \in MainTasks :
            /\ tasks[m].pc = "done" => tasks[m].outcome \in {"ok", "reload_failed"}
            /\ (tasks[m].pc = "done" /\ tasks[m].outcome = "reload_failed")
               => /\ tasks[m].cause = "embedding"
                  /\ \A u \in ReqTasks :
                        (tasks[u].kind = "query" /\ tasks[u].pc = "done")
                        => \/ /\ tasks[u].outcome = "ok"
                              /\ Len(tasks[u].results) <= Len(chunks)
                              /\ \A j \in 1..Len(tasks[u].results) :
                                    \E i \in 1..Len(chunks) :
                                       tasks[u].results[j].chunk = chunks[i]
                           \/ /\ tasks[u].outcome = "error"
                              /\ tasks[u].cause \in {"embedding", "completion", "store"})
    /\ [][\A m \in MainTasks :
             (tasks[m].kind = "startup" /\ tasks[m].pc # "done"
              /\ tasks'[m].pc = "done" /\ tasks'[m].outcome # "ok")
             => \E n \in 0..(Len(tasks[m].all_chunks) - 1) :
                   /\ Len(chunks') = n /\ Len(embeddings') = n
                   /\ \A i \in 1..n : chunks'[i] = RecordOfRow(tasks[m].all_chunks[i])]_vars

\* After a startup rebuild that failed with part of the store re-added, a
\* query has been served and has returned a hit.
C16_Witness ==
    /\ \E m \in MainTasks : tasks[m].pc = "done" /\ tasks[m].outcome = "reload_failed"
    /\ Len(chunks) >= 1 /\ Len(chunks) < Len(get_all_chunks(items, chunkRows))
    /\ \E u \in ReqTasks :
          /\ tasks[u].kind = "query" /\ tasks[u].pc = "done" /\ tasks[u].outcome = "ok"
          /\ Len(tasks[u].results) >= 1

IndexOrdinals(item_id) ==
    { chunks[i].metadata.chunk_index :
        i \in { h \in 1..Len(chunks) : chunks[h].metadata.item_id = item_id } }

StoreOrdinals(item_id) ==
    { chunkRows[i].chunk_index :
        i \in { h \in 1..Len(chunkRows) : chunkRows[h].item_id = item_id } }

\* C18: when the embedding of the j-th chunk fails during the ingestion of an
\* item of n chunks, the index keeps the chunks 0..j-1 of the item and the
\* store holds all n chunks of the item.
C18_FailedIngestPersistsAll ==
    \A t \in ReqTasks :
        (tasks[t].kind = "ingest" /\ tasks[t].pc = "done"
         /\ tasks[t].outcome = "error" /\ tasks[t].cause = "embedding")
        => LET item == get_item_by_id(items, tasks[t].item_id)
               n == Len(chunk_text(item[1].content, DefaultChunkSize, DefaultOverlap))
           IN  /\ item # <<>>
               /\ \E j \in 0..(n - 1) : IndexOrdinals(tasks[t].item_id) = 0..(j - 1)
               /\ StoreOrdinals(tasks[t].item_id) = 0..(n - 1)

====
